---- MODULE Spec2Model ----
(***************************************************************************)
(* A model of the markdown chunking engine of src/chunking:                *)
(* MarkdownChunker.create_semantic_chunks and the passes it calls          *)
(* (extract_heading_structure, the section slicer, _split_large_chunk,     *)
(* _split_by_sentences, _get_overlap_text, _merge_small_chunks).           *)
(*                                                                         *)
(* A text is a sequence of one-character strings.  Offsets are Python's:   *)
(* 0-based, a slice [a, b) is half open.  The regular expressions of the   *)
(* source are modelled by scanners that return what re.finditer returns    *)
(* (leftmost, non-overlapping matches, greedy/lazy as written).            *)
(*                                                                         *)
(* Chunk records carry the fields of the source's dicts and, after them,   *)
(* history fields the code does not have: they record where a chunk's     *)
(* text comes from and never influence a step.                             *)
(*   own     the chunk's text without the overlap it was seeded with       *)
(*   from,to the offsets in the document where own starts and ends         *)
(*   sec     the marker that leads the chunk's section                     *)
(*   pass    "section", "para", "sent" or "fixed": what produced it        *)
(*   seed    the overlap text the chunk's buffer was seeded with           *)
(*   units   how many paragraphs or sentences own is made of               *)
(*   members the places, in the sequence handed to the merge pass, of the  *)
(*           chunks merged into it                                         *)
(*   first,last  the places of those chunks in the sorted sequence         *)
(***************************************************************************)
EXTENDS Integers, Sequences, FiniteSets, TLC

Min(a, b) == IF a <= b THEN a ELSE b

Max(a, b) == IF a >= b THEN a ELSE b

(***************************************************************************)
(* Characters and Python's string primitives.                              *)
(***************************************************************************)
NL == "\n"

\* Python's \s and str.strip() whitespace (the members a document can hold here)
Whitespace == {" ", NL, "\t"}

\* the class [.!?] of the sentence pattern
Terminators == {".", "!", "?"}

\* an index of a Python slice, resolved against a length n
SliceIndex(i, n) == IF i < 0 THEN Max(i + n, 0) ELSE Min(i, n)

\* Python's s[a:b]
PySlice(s, a, b) ==
    LET lo == SliceIndex(a, Len(s))
        hi == SliceIndex(b, Len(s))
    IN  IF lo >= hi THEN <<>> ELSE SubSeq(s, lo + 1, hi)

\* Python's s[a:]
PyFrom(s, a) == PySlice(s, a, Len(s))

\* the character at 0-based offset p
At(s, p) == s[p + 1]

\* number of leading whitespace characters of s
RECURSIVE LeadingWs(_)
LeadingWs(s) ==
    IF s = <<>> THEN 0
    ELSE IF Head(s) \in Whitespace THEN 1 + LeadingWs(Tail(s)) ELSE 0

\* number of trailing whitespace characters of s
RECURSIVE TrailingWs(_)
TrailingWs(s) ==
    IF s = <<>> THEN 0
    ELSE IF s[Len(s)] \in Whitespace THEN 1 + TrailingWs(SubSeq(s, 1, Len(s) - 1)) ELSE 0

\* Python's s.strip()
Strip(s) ==
    LET l == LeadingWs(s)
    IN  IF l = Len(s) THEN <<>> ELSE SubSeq(s, l + 1, Len(s) - TrailingWs(s))

\* whether lit occurs in s at 0-based offset p
StartsWithAt(s, p, lit) ==
    /\ p >= 0
    /\ p + Len(lit) <= Len(s)
    /\ \A k \in 1..Len(lit) : s[p + k] = lit[k]

RECURSIVE FindFrom(_, _, _)
FindFrom(s, lit, p) ==
    IF p + Len(lit) > Len(s) THEN -1
    ELSE IF StartsWithAt(s, p, lit) THEN p ELSE FindFrom(s, lit, p + 1)

\* Python's s.find(lit, start)
PyFind(s, lit, start) == FindFrom(s, lit, SliceIndex(start, Len(s)))

\* sep.join(parts)
RECURSIVE Join(_, _)
Join(parts, sep) ==
    IF parts = <<>> THEN <<>>
    ELSE IF Len(parts) = 1 THEN parts[1]
    ELSE parts[1] \o sep \o Join(Tail(parts), sep)

\* the concatenation of a sequence of texts
RECURSIVE Concat(_)
Concat(parts) == IF parts = <<>> THEN <<>> ELSE Head(parts) \o Concat(Tail(parts))

\* the end (exclusive) of the maximal whitespace run that starts at p
RECURSIVE WsRunEnd(_, _)
WsRunEnd(s, p) ==
    IF p < Len(s) /\ At(s, p) \in Whitespace THEN WsRunEnd(s, p + 1) ELSE p

\* the end (exclusive) of the line that holds offset p: the next newline or len
RECURSIVE LineEnd(_, _)
LineEnd(s, p) ==
    IF p < Len(s) /\ At(s, p) # NL THEN LineEnd(s, p + 1) ELSE p

(***************************************************************************)
(* estimate_tokens                                                          *)
(***************************************************************************)
CharsPerToken == 4

estimate_tokens(text) == Max(1, Len(text) \div CharsPerToken)

(***************************************************************************)
(* extract_formula_boundaries: the spans (start, end) of re.finditer for   *)
(* each of the seven patterns, sorted.                                      *)
(***************************************************************************)
Chars2(a, b) == <<a, b>>

DisplayDelim == Chars2("$", "$")

\* the literal \begin{name}
EnvBegin(name) == <<"\\", "b", "e", "g", "i", "n", "{">> \o name \o <<"}">>

\* the literal \end{name}
EnvEnd(name) == <<"\\", "e", "n", "d", "{">> \o name \o <<"}">>

EnvNames ==
    << <<"e", "q", "u", "a", "t", "i", "o", "n">>,
       <<"a", "l", "i", "g", "n">>,
       <<"e", "q", "n", "a", "r", "r", "a", "y">>,
       <<"g", "a", "t", "h", "e", "r", "e", "d">>,
       <<"c", "a", "s", "e", "s">> >>

\* finditer of  open [\s\S]*? close  from offset p: a match starts at an
\* occurrence of open and ends with the first occurrence of close after it
RECURSIVE DelimitedFrom(_, _, _, _)
DelimitedFrom(text, open, close, p) ==
    IF p + Len(open) > Len(text) THEN <<>>
    ELSE IF StartsWithAt(text, p, open)
         THEN LET q == FindFrom(text, close, p + Len(open))
              IN  IF q >= 0
                  THEN <<<<p, q + Len(close)>>>>
                       \o DelimitedFrom(text, open, close, q + Len(close))
                  ELSE DelimitedFrom(text, open, close, p + 1)
         ELSE DelimitedFrom(text, open, close, p + 1)

\* the end (exclusive) of the run of characters other than $ and newline from p
RECURSIVE InlineRunEnd(_, _)
InlineRunEnd(text, p) ==
    IF p < Len(text) /\ At(text, p) \notin {"$", NL}
    THEN InlineRunEnd(text, p + 1) ELSE p

\* finditer of  \$([^$\n]+?)\$  from offset p
RECURSIVE InlineFrom(_, _)
InlineFrom(text, p) ==
    IF p + 2 >= Len(text) THEN <<>>
    ELSE IF At(text, p) = "$" /\ At(text, p + 1) \notin {"$", NL}
         THEN LET q == InlineRunEnd(text, p + 1)
              IN  IF q < Len(text) /\ At(text, q) = "$"
                  THEN <<<<p, q + 1>>>> \o InlineFrom(text, q + 1)
                  ELSE InlineFrom(text, p + 1)
         ELSE InlineFrom(text, p + 1)

\* Python's tuple order on (start, end)
SpanBefore(a, b) == a[1] < b[1] \/ (a[1] = b[1] /\ a[2] <= b[2])

\* insert span x into the sorted sequence spans, after its equals
RECURSIVE InsertSpan(_, _)
InsertSpan(spans, x) ==
    IF spans = <<>> THEN <<x>>
    ELSE IF SpanBefore(Head(spans), x)
         THEN <<Head(spans)>> \o InsertSpan(Tail(spans), x)
         ELSE <<x>> \o spans

\* sorted(boundaries)
RECURSIVE SortSpans(_)
SortSpans(spans) ==
    IF spans = <<>> THEN <<>>
    ELSE InsertSpan(SortSpans(SubSeq(spans, 1, Len(spans) - 1)), spans[Len(spans)])

RECURSIVE EnvSpans(_, _)
EnvSpans(text, k) ==
    IF k > Len(EnvNames) THEN <<>>
    ELSE DelimitedFrom(text, EnvBegin(EnvNames[k]), EnvEnd(EnvNames[k]), 0)
         \o EnvSpans(text, k + 1)

extract_formula_boundaries(text) ==
    SortSpans(DelimitedFrom(text, DisplayDelim, DisplayDelim, 0)
              \o InlineFrom(text, 0)
              \o EnvSpans(text, 1))

(***************************************************************************)
(* extract_heading_structure                                                *)
(***************************************************************************)
MaxHashes == 6

DocumentStartTitle ==
    <<"D", "o", "c", "u", "m", "e", "n", "t", " ", "S", "t", "a", "r", "t">>

EndTitle == <<"E", "N", "D">>

\* the number of "#" from offset p
RECURSIVE HashRun(_, _)
HashRun(text, p) ==
    IF p < Len(text) /\ At(text, p) = "#" THEN 1 + HashRun(text, p + 1) ELSE 0

\* where (.+) starts after \s+ has matched from offset p: the whitespace run is
\* taken whole and given back one character at a time until a character that is
\* not a newline follows it; -1 when there is no such place
RECURSIVE TitleStart(_, _, _)
TitleStart(text, p, q) ==
    IF q <= p THEN -1
    ELSE IF q < Len(text) /\ At(text, q) # NL THEN q
    ELSE TitleStart(text, p, q - 1)

\* the match of  ^(#{1,6})\s+(.+)$  at the line start p, or <<>>: the marker
\* and the end of the match
HeadingAt(text, p) ==
    LET k == HashRun(text, p)
        t == TitleStart(text, p + k, WsRunEnd(text, p + k))
    IN  IF k < 1 \/ k > MaxHashes \/ t < 0 THEN <<>>
        ELSE << [level |-> k,
                 title |-> Strip(PySlice(text, t, LineEnd(text, t))),
                 position |-> p],
                LineEnd(text, t) >>

\* finditer of the heading pattern from offset p
RECURSIVE HeadingsFrom(_, _)
HeadingsFrom(text, p) ==
    IF p >= Len(text) THEN <<>>
    ELSE IF p = 0 \/ At(text, p - 1) = NL
         THEN LET m == HeadingAt(text, p)
              IN  IF m # <<>>
                  THEN <<m[1]>> \o HeadingsFrom(text, m[2])
                  ELSE HeadingsFrom(text, p + 1)
         ELSE HeadingsFrom(text, p + 1)

\* a variant that inserts the Document Start marker before every document
extract_heading_structure_always_start(text) ==
    << [level |-> 0, title |-> DocumentStartTitle, position |-> 0] >>
    \o HeadingsFrom(text, 0)
    \o << [level |-> 0, title |-> EndTitle, position |-> Len(text)] >>

extract_heading_structure(text) ==
    LET found == HeadingsFrom(text, 0)
        first == IF found = <<>> \/ found[1].position > 0
                 THEN << [level |-> 0, title |-> DocumentStartTitle, position |-> 0] >>
                 ELSE <<>>
    IN  first \o found
        \o << [level |-> 0, title |-> EndTitle, position |-> Len(text)] >>

(***************************************************************************)
(* The section slicer of create_semantic_chunks (the loop over headings).  *)
(* Marker k here is headings[k], the source's headings[k - 1].             *)
(***************************************************************************)
PathSeparator == <<" ", ">", " ">>

RootPath == <<"R", "o", "o", "t">>

\* a variant that walks the markers before marker k only: range(i)
RECURSIVE PathTitlesBefore(_, _)
PathTitlesBefore(hs, k) ==
    IF k <= 1 THEN <<>>
    ELSE PathTitlesBefore(hs, k - 1)
         \o (IF hs[k - 1].level > 0 THEN <<hs[k - 1].title>> ELSE <<>>)

\* the titles of the markers 1..k that have level > 0, in order
RECURSIVE PathTitles(_, _)
PathTitles(hs, k) ==
    IF k = 0 THEN <<>>
    ELSE PathTitles(hs, k - 1)
         \o (IF hs[k].level > 0 THEN <<hs[k].title>> ELSE <<>>)

\* a variant without the "Root" fallback
SectionPathJoined(hs, k) == Join(PathTitles(hs, k), PathSeparator)

SectionPath(hs, k) ==
    LET path == PathTitles(hs, k)
    IN  IF path # <<>> THEN Join(path, PathSeparator) ELSE RootPath

\* the chunk of the section led by marker k
SectionChunk(text, hs, k) ==
    LET start_pos == hs[k].position
        end_pos == hs[k + 1].position
        chunk_content == PySlice(text, start_pos, end_pos)
    IN  [content |-> chunk_content,
         heading |-> IF hs[k].level > 0 THEN hs[k].title ELSE DocumentStartTitle,
         level |-> hs[k].level,
         path |-> SectionPath(hs, k),
         token_count |-> estimate_tokens(chunk_content),
         start_pos |-> start_pos,
         end_pos |-> end_pos,
         own |-> chunk_content, from |-> start_pos, to |-> end_pos,
         sec |-> k, pass |-> "section", seed |-> <<>>, units |-> 1,
         members |-> <<>>, first |-> 0, last |-> 0]

RECURSIVE SliceSections(_, _, _)
SliceSections(text, hs, k) ==
    IF k >= Len(hs) THEN <<>>
    ELSE (IF Strip(PySlice(text, hs[k].position, hs[k + 1].position)) = <<>>
          THEN <<>>
          ELSE <<SectionChunk(text, hs, k)>>)
         \o SliceSections(text, hs, k + 1)

(***************************************************************************)
(* _get_overlap_text                                                        *)
(***************************************************************************)
\* the largest offset j in [lo, hi) that holds a newline, or -1
RECURSIVE LastNewline(_, _, _)
LastNewline(text, lo, hi) ==
    IF hi <= lo THEN -1
    ELSE IF At(text, hi - 1) = NL THEN hi - 1 ELSE LastNewline(text, lo, hi - 1)

\* finditer of  \n\s*\n  from offset p: the matches (start, end)
RECURSIVE ParaMatchesFrom(_, _)
ParaMatchesFrom(text, p) ==
    IF p >= Len(text) THEN <<>>
    ELSE IF At(text, p) = NL
         THEN LET j == LastNewline(text, p + 1, WsRunEnd(text, p + 1))
              IN  IF j >= 0
                  THEN <<<<p, j + 1>>>> \o ParaMatchesFrom(text, j + 1)
                  ELSE ParaMatchesFrom(text, p + 1)
         ELSE ParaMatchesFrom(text, p + 1)

\* finditer of  (?<=[.!?])\s+  from offset p: the matches (start, end)
RECURSIVE SentenceMatchesFrom(_, _)
SentenceMatchesFrom(text, p) ==
    IF p >= Len(text) THEN <<>>
    ELSE IF p >= 1 /\ At(text, p - 1) \in Terminators /\ At(text, p) \in Whitespace
         THEN <<<<p, WsRunEnd(text, p)>>>>
              \o SentenceMatchesFrom(text, WsRunEnd(text, p))
         ELSE SentenceMatchesFrom(text, p + 1)

\* the start of the last span (in sorted order) that ends after offset limit,
\* or -1: the loop over reversed(formula_boundaries)
RECURSIVE LastSpanEndingAfter(_, _, _)
LastSpanEndingAfter(spans, k, limit) ==
    IF k = 0 THEN -1
    ELSE IF spans[k][2] > limit THEN spans[k][1]
    ELSE LastSpanEndingAfter(spans, k - 1, limit)

\* the overlap when no formula ends in the last part of the text: the last
\* char_overlap characters, from after the first paragraph or sentence
\* boundary in them
WindowOverlap(overlap_text, para_match, sentence_match) ==
    IF para_match # <<>> THEN PyFrom(overlap_text, para_match[1][2])
    ELSE IF sentence_match # <<>> THEN PyFrom(overlap_text, sentence_match[1][2])
    ELSE overlap_text

\* _get_overlap_text, given start: the start of the formula to include, or -1
OverlapFrom(text, char_overlap, start, overlap_text) ==
    IF start >= 0 THEN PyFrom(text, start)
    ELSE IF Len(text) <= char_overlap THEN text
    ELSE WindowOverlap(overlap_text, ParaMatchesFrom(overlap_text, 0),
                       SentenceMatchesFrom(overlap_text, 0))

\* _get_overlap_text, given the formula boundaries of text
OverlapOf(text, char_overlap, formula_boundaries) ==
    OverlapFrom(text, char_overlap,
                LastSpanEndingAfter(formula_boundaries, Len(formula_boundaries),
                                    Len(text) - char_overlap),
                PyFrom(text, 0 - char_overlap))

get_overlap_text(text, overlap) ==
    OverlapOf(text, overlap * CharsPerToken, extract_formula_boundaries(text))

(***************************************************************************)
(* _split_by_sentences.  The state of its loop, and of the paragraph loop: *)
(* subs (sub_chunks), text (current_chunk_text), tokens                    *)
(* (current_token_count), start (current_start, current_start_pos),        *)
(* last_boundary, and the history of the buffer (own, from, to, seed,      *)
(* units).                                                                  *)
(***************************************************************************)
\* a sub-chunk dict: heading, level and path are those of the chunk split
SubChunk(chunk, text, tokens, start, hist) ==
    [content |-> text,
     heading |-> chunk.heading,
     level |-> chunk.level,
     path |-> chunk.path,
     token_count |-> tokens,
     start_pos |-> start,
     end_pos |-> start + Len(text),
     own |-> hist.own, from |-> hist.from, to |-> hist.to,
     sec |-> chunk.sec, pass |-> hist.pass, seed |-> hist.seed, units |-> hist.units,
     members |-> <<>>, first |-> 0, last |-> 0]

\* whether offset pos lies in one of the spans (both ends included)
InSpans(spans, pos) ==
    \E b \in 1..Len(spans) : spans[b][1] <= pos /\ pos <= spans[b][2]

\* the nested in_formula(pos) of _split_by_sentences
in_formula(start_pos, formula_boundaries, pos) ==
    InSpans(formula_boundaries, start_pos + pos)

\* the starts of the sentence matches that are not in_formula
RECURSIVE KeptStarts(_, _, _, _)
KeptStarts(matches, k, start_pos, formula_boundaries) ==
    IF k > Len(matches) THEN <<>>
    ELSE (IF in_formula(start_pos, formula_boundaries, matches[k][1])
          THEN <<>> ELSE <<matches[k][1]>>)
         \o KeptStarts(matches, k + 1, start_pos, formula_boundaries)

\* sentence_boundaries, with len(content) as the final boundary
SentenceBoundaries(content, start_pos, formula_boundaries) ==
    Append(KeptStarts(SentenceMatchesFrom(content, 0), 1, start_pos, formula_boundaries),
           Len(content))

\* one sub-chunk of the fixed-size loop: window is sentence[i:i + chars_per_chunk]
FixedWindow(chunk, sentence, i, base, sat, window, chunk_text, overlap_size_chars) ==
    SubChunk(chunk, chunk_text, estimate_tokens(chunk_text), base + i,
             [own |-> window, from |-> sat + i, to |-> sat + i + Len(window),
              pass |-> "fixed",
              seed |-> IF i > 0 THEN PySlice(sentence, i - overlap_size_chars, i) ELSE <<>>,
              units |-> 1])

\* chunk_text of the fixed-size loop
WindowText(sentence, i, chars_per_chunk, window, overlap_size_chars) ==
    IF i > 0 THEN PySlice(sentence, i - overlap_size_chars, i + chars_per_chunk)
    ELSE window

WindowAt(chunk, sentence, i, base, sat, chars_per_chunk, overlap, window) ==
    FixedWindow(chunk, sentence, i, base, sat, window,
                WindowText(sentence, i, chars_per_chunk, window,
                           Min(overlap * CharsPerToken, Len(window))),
                Min(overlap * CharsPerToken, Len(window)))

\* the fixed-size loop: for i in range(0, len(sentence), chars_per_chunk)
RECURSIVE FixedWindows(_, _, _, _, _, _, _)
FixedWindows(chunk, sentence, i, base, sat, chars_per_chunk, overlap) ==
    IF i >= Len(sentence) THEN <<>>
    ELSE << WindowAt(chunk, sentence, i, base, sat, chars_per_chunk, overlap,
                     PySlice(sentence, i, i + chars_per_chunk)) >>
         \o FixedWindows(chunk, sentence, i + chars_per_chunk, base, sat,
                         chars_per_chunk, overlap)

\* the buffer of a pass, closed as a sub-chunk
Closed(chunk, st, start, pass) ==
    SubChunk(chunk, st.text, st.tokens, start,
             [own |-> st.own, from |-> st.from, to |-> st.to, pass |-> pass,
              seed |-> st.seed, units |-> st.units])

\* "Save current chunk" before an oversized unit: the buffer, if it holds
\* text, becomes a sub-chunk and is emptied
Saved(chunk, st, start, pass) ==
    IF st.text # <<>>
    THEN [st EXCEPT !.subs = Append(st.subs, Closed(chunk, st, start, pass)),
                    !.text = <<>>, !.tokens = 0,
                    !.own = <<>>, !.seed = <<>>, !.units = 0]
    ELSE st

\* "Save current chunk" of _split_by_sentences
SavedSentences(chunk, st) == Saved(chunk, st, chunk.start_pos + st.start, "sent")

\* "Save current chunk" of _split_large_chunk
SavedParagraphs(chunk, st) == Saved(chunk, st, st.start, "para")

\* the sentence is split by a fixed size
OversizedSentence(chunk, st, boundary, sentence, sat, max, overlap) ==
    [st EXCEPT
       !.subs = st.subs \o FixedWindows(chunk, sentence, 0,
                                        chunk.start_pos + st.last_boundary, sat,
                                        max * CharsPerToken, overlap),
       !.last_boundary = boundary]

\* "Save current chunk", then "Create overlap", in _split_by_sentences
SentenceBufferClosed(chunk, st, overlap_text) ==
    [st EXCEPT
       !.subs = Append(st.subs, Closed(chunk, st, chunk.start_pos + st.start, "sent")),
       !.text = overlap_text,
       !.tokens = estimate_tokens(overlap_text),
       !.start = st.start + Len(overlap_text) - Len(overlap_text),
       !.own = <<>>, !.seed = overlap_text, !.units = 0]

\* "Add sentence to current chunk"
SentenceAdded(st, boundary, sentence, sat) ==
    [st EXCEPT
       !.text = IF st.text # <<>> THEN st.text \o <<" ">> \o sentence ELSE sentence,
       !.tokens = estimate_tokens(IF st.text # <<>> THEN st.text \o <<" ">> \o sentence
                                  ELSE sentence),
       !.start = IF st.text # <<>> THEN st.start ELSE st.last_boundary,
       !.last_boundary = boundary,
       !.own = IF st.units = 0 THEN sentence ELSE st.own \o <<" ">> \o sentence,
       !.from = IF st.units = 0 THEN sat ELSE st.from,
       !.to = sat + Len(sentence),
       !.units = st.units + 1]

\* one iteration of  for boundary in sentence_boundaries, for the sentence
\* content[last_boundary:boundary].strip(), which starts at offset sat
SentenceUnit(chunk, st, boundary, sentence, sat, max, overlap) ==
    IF estimate_tokens(sentence) > max
    THEN OversizedSentence(chunk, SavedSentences(chunk, st),
                           boundary, sentence, sat, max, overlap)
    ELSE IF st.tokens + estimate_tokens(sentence) > max /\ st.text # <<>>
    THEN SentenceAdded(SentenceBufferClosed(chunk, st,
                                            get_overlap_text(st.text, overlap)),
                       boundary, sentence, sat)
    ELSE SentenceAdded(st, boundary, sentence, sat)

SentenceRaw(chunk, st, boundary, raw, max, overlap) ==
    SentenceUnit(chunk, st, boundary, Strip(raw),
                 chunk.from + st.last_boundary + LeadingWs(raw), max, overlap)

SentenceStep(chunk, st, boundary, max, overlap) ==
    SentenceRaw(chunk, st, boundary,
                PySlice(chunk.content, st.last_boundary, boundary), max, overlap)

RECURSIVE SentenceLoop(_, _, _, _, _, _)
SentenceLoop(chunk, st, boundaries, k, max, overlap) ==
    IF k > Len(boundaries) THEN st
    ELSE SentenceLoop(chunk, SentenceStep(chunk, st, boundaries[k], max, overlap),
                      boundaries, k + 1, max, overlap)

\* the state of a loop before its first iteration
LoopStart(chunk, start) ==
    [subs |-> <<>>, text |-> <<>>, tokens |-> 0, start |-> start,
     last_boundary |-> 0, own |-> <<>>, from |-> chunk.from, to |-> chunk.from,
     seed |-> <<>>, units |-> 0]

split_by_sentences(chunk, formula_boundaries, max, overlap) ==
    SavedSentences(chunk,
                   SentenceLoop(chunk, LoopStart(chunk, 0),
                                SentenceBoundaries(chunk.content, chunk.start_pos,
                                                   formula_boundaries),
                                1, max, overlap)).subs

(***************************************************************************)
(* _split_large_chunk                                                       *)
(***************************************************************************)
\* a paragraph: raw text stripped, with the offset (at) of its first character
\* in content; none when it strips to nothing
ParagraphOf(raw, last_pos) ==
    IF Strip(raw) # <<>>
    THEN << [text |-> Strip(raw), at |-> last_pos + LeadingWs(raw)] >>
    ELSE <<>>

\* the loop over para_pattern.finditer(content), and the final paragraph
RECURSIVE Paragraphs(_, _, _, _, _)
Paragraphs(content, formula_boundaries, matches, k, last_pos) ==
    IF k > Len(matches)
    THEN ParagraphOf(PyFrom(content, last_pos), last_pos)
    ELSE IF InSpans(formula_boundaries, matches[k][1])
    THEN Paragraphs(content, formula_boundaries, matches, k + 1, last_pos)
    ELSE ParagraphOf(PySlice(content, last_pos, matches[k][1]), last_pos)
         \o Paragraphs(content, formula_boundaries, matches, k + 1, matches[k][2])

ParagraphSeparator == <<NL, NL>>

\* para_chunk, the temporary chunk of an oversized paragraph; found is
\* content.find(para, current_start_pos)
ParaChunk(chunk, para, pat, found) ==
    [chunk EXCEPT
       !.content = para,
       !.token_count = estimate_tokens(para),
       !.start_pos = found + chunk.start_pos,
       !.end_pos = found + Len(para) + chunk.start_pos,
       !.own = para, !.from = pat, !.to = pat + Len(para)]

\* the paragraph is split by sentences
OversizedParagraph(st, para_chunk, formula_boundaries, max, overlap) ==
    [st EXCEPT
       !.subs = st.subs \o split_by_sentences(para_chunk, formula_boundaries,
                                              max, overlap),
       !.start = para_chunk.end_pos]

\* "Save current chunk", then "Create overlap", in _split_large_chunk
ParagraphBufferClosed(chunk, st, overlap_text) ==
    [st EXCEPT
       !.subs = Append(st.subs, Closed(chunk, st, st.start, "para")),
       !.text = overlap_text,
       !.tokens = estimate_tokens(overlap_text),
       !.start = st.start + Len(st.text) - Len(overlap_text),
       !.own = <<>>, !.seed = overlap_text, !.units = 0]

\* "Add paragraph to current chunk"
ParagraphAdded(st, para, pat) ==
    [st EXCEPT
       !.text = IF st.text # <<>> THEN st.text \o ParagraphSeparator \o para ELSE para,
       !.tokens = estimate_tokens(IF st.text # <<>>
                                  THEN st.text \o ParagraphSeparator \o para ELSE para),
       !.own = IF st.units = 0 THEN para ELSE st.own \o ParagraphSeparator \o para,
       !.from = IF st.units = 0 THEN pat ELSE st.from,
       !.to = pat + Len(para),
       !.units = st.units + 1]

\* one iteration of  for para in paragraphs, for the paragraph para, which
\* starts at offset pat
ParagraphUnit(chunk, formula_boundaries, st, para, pat, max, overlap) ==
    IF estimate_tokens(para) > max
    THEN OversizedParagraph(SavedParagraphs(chunk, st),
                            ParaChunk(chunk, para, pat,
                                      PyFind(chunk.content, para, st.start)),
                            formula_boundaries, max, overlap)
    ELSE IF st.tokens + estimate_tokens(para) > max /\ st.text # <<>>
    THEN ParagraphAdded(ParagraphBufferClosed(chunk, st,
                                              get_overlap_text(st.text, overlap)),
                        para, pat)
    ELSE ParagraphAdded(st, para, pat)

ParagraphStep(chunk, formula_boundaries, st, unit, max, overlap) ==
    ParagraphUnit(chunk, formula_boundaries, st, unit.text, chunk.from + unit.at,
                  max, overlap)

RECURSIVE ParagraphLoop(_, _, _, _, _, _, _)
ParagraphLoop(chunk, formula_boundaries, st, paragraphs, k, max, overlap) ==
    IF k > Len(paragraphs) THEN st
    ELSE ParagraphLoop(chunk, formula_boundaries,
                       ParagraphStep(chunk, formula_boundaries, st, paragraphs[k],
                                     max, overlap),
                       paragraphs, k + 1, max, overlap)

\* _split_large_chunk from "If no paragraphs were found or only one paragraph"
SplitParagraphs(chunk, formula_boundaries, paragraphs, max, overlap) ==
    IF Len(paragraphs) <= 1 /\ chunk.token_count > max
    THEN split_by_sentences(chunk, formula_boundaries, max, overlap)
    ELSE SavedParagraphs(chunk,
                         ParagraphLoop(chunk, formula_boundaries,
                                       LoopStart(chunk, chunk.start_pos),
                                       paragraphs, 1, max, overlap)).subs

\* _split_large_chunk from "First try to split at paragraph boundaries"
SplitWithFormulas(chunk, formula_boundaries, max, overlap) ==
    SplitParagraphs(chunk, formula_boundaries,
                    Paragraphs(chunk.content, formula_boundaries,
                               ParaMatchesFrom(chunk.content, 0), 1, 0),
                    max, overlap)

split_large_chunk(chunk, max, overlap) ==
    SplitWithFormulas(chunk, extract_formula_boundaries(chunk.content), max, overlap)

\* the loop  for chunk in initial_chunks  of create_semantic_chunks
RECURSIVE ProcessLargeChunks(_, _, _)
ProcessLargeChunks(chunks, max, overlap) ==
    IF chunks = <<>> THEN <<>>
    ELSE (IF Head(chunks).token_count <= max
          THEN <<Head(chunks)>>
          ELSE split_large_chunk(Head(chunks), max, overlap))
         \o ProcessLargeChunks(Tail(chunks), max, overlap)

(***************************************************************************)
(* _merge_small_chunks                                                      *)
(***************************************************************************)
\* insert chunk x into the sequence sorted by start_pos, after its equals
RECURSIVE InsertByStart(_, _)
InsertByStart(sorted, x) ==
    IF sorted = <<>> THEN <<x>>
    ELSE IF Head(sorted).start_pos <= x.start_pos
         THEN <<Head(sorted)>> \o InsertByStart(Tail(sorted), x)
         ELSE <<x>> \o sorted

\* sorted(chunks, key=lambda x: x['start_pos']): a stable sort
RECURSIVE SortByStart(_)
SortByStart(chunks) ==
    IF chunks = <<>> THEN <<>>
    ELSE InsertByStart(SortByStart(SubSeq(chunks, 1, Len(chunks) - 1)),
                       chunks[Len(chunks)])

\* a variant that merges only chunks more than one token below min
MergeTestBelowMin(current_chunk, next_chunk, min, max) ==
    /\ current_chunk.token_count + 1 < min
    /\ current_chunk.level = next_chunk.level
    /\ current_chunk.path = next_chunk.path
    /\ current_chunk.token_count + next_chunk.token_count <= max

\* a variant that does not compare level and path
MergeTestAnySection(current_chunk, next_chunk, min, max) ==
    /\ current_chunk.token_count < min
    /\ current_chunk.token_count + next_chunk.token_count <= max

\* whether next_chunk is merged into current_chunk
MergeTest(current_chunk, next_chunk, min, max) ==
    /\ current_chunk.token_count < min
    /\ current_chunk.level = next_chunk.level
    /\ current_chunk.path = next_chunk.path
    /\ current_chunk.token_count + next_chunk.token_count <= max

\* a variant that estimates the tokens of the merged content anew
MergedEstimated(current_chunk, next_chunk, i) ==
    [current_chunk EXCEPT
       !.content = current_chunk.content \o <<NL, NL>> \o next_chunk.content,
       !.token_count =
           estimate_tokens(current_chunk.content \o <<NL, NL>> \o next_chunk.content),
       !.end_pos = next_chunk.end_pos,
       !.own = current_chunk.own \o next_chunk.own,
       !.to = next_chunk.to,
       !.units = current_chunk.units + next_chunk.units,
       !.members = current_chunk.members \o next_chunk.members,
       !.last = i]

\* current_chunk after next_chunk, at place i of sorted_chunks, is merged into it
Merged(current_chunk, next_chunk, i) ==
    [current_chunk EXCEPT
       !.content = current_chunk.content \o <<NL, NL>> \o next_chunk.content,
       !.token_count = current_chunk.token_count + next_chunk.token_count,
       !.end_pos = next_chunk.end_pos,
       !.own = current_chunk.own \o next_chunk.own,
       !.to = next_chunk.to,
       !.units = current_chunk.units + next_chunk.units,
       !.members = current_chunk.members \o next_chunk.members,
       !.last = i]

\* current_chunk = sorted_chunks[i].copy()
Started(sorted_chunks, i) == [sorted_chunks[i] EXCEPT !.first = i, !.last = i]

\* for i in range(1, len(sorted_chunks)), from place i, and the final append
RECURSIVE MergeLoop(_, _, _, _, _)
MergeLoop(sorted_chunks, i, current_chunk, min, max) ==
    IF i > Len(sorted_chunks) THEN <<current_chunk>>
    ELSE IF MergeTest(current_chunk, sorted_chunks[i], min, max)
         THEN MergeLoop(sorted_chunks, i + 1,
                        Merged(current_chunk, sorted_chunks[i], i), min, max)
         ELSE <<current_chunk>>
              \o MergeLoop(sorted_chunks, i + 1, Started(sorted_chunks, i), min, max)

\* the chunks handed to the merge pass, each with its place among them
Numbered(cs) == [i \in 1..Len(cs) |-> [cs[i] EXCEPT !.members = <<i>>]]

MergeSorted(sorted_chunks, min, max) ==
    MergeLoop(sorted_chunks, 2, Started(sorted_chunks, 1), min, max)

merge_small_chunks(cs, min, max) ==
    IF cs = <<>> THEN <<>>
    ELSE MergeSorted(SortByStart(Numbered(cs)), min, max)

(***************************************************************************)
(* The finalizer of create_semantic_chunks and _generate_chunk_id.         *)
(***************************************************************************)
HexDigits ==
    <<"0", "1", "2", "3", "4", "5", "6", "7", "8", "9", "a", "b", "c", "d", "e", "f">>

\* the length of an MD5 hexdigest
HexDigestLength == 32

\* the length of an id: hexdigest()[:12]
IdLength == 12

\* the characters of the documents, for the code of a character
Alphabet ==
    <<"a", ".", " ", NL, "$", "#", "A", "B", "t", "e", "x", "1", "2", "!", "?", "\t">>

CharCode(c) ==
    IF \E i \in 1..Len(Alphabet) : Alphabet[i] = c
    THEN CHOOSE i \in 1..Len(Alphabet) : Alphabet[i] = c
    ELSE 0

\* a number computed from every character of the content and its place
RECURSIVE Checksum(_, _)
Checksum(content, h) ==
    IF content = <<>> THEN h
    ELSE Checksum(Tail(content), (h * 31 + CharCode(Head(content)) + 1) % 65536)

HexDigestOf(h) ==
    [j \in 1..HexDigestLength |-> HexDigits[(((h \div (j + 1)) + h * j) % 16) + 1]]

\* hashlib.md5(content.encode('utf-8')).hexdigest(): MD5 itself is not
\* computed; a digest of the same shape, 32 hex digits that are a function of
\* the content, stands for it
md5_hexdigest(content) == HexDigestOf(Checksum(content, 7))

generate_chunk_id(content) == PySlice(md5_hexdigest(content), 0, IdLength)

\* a variant that derives the id from the content and the place of the chunk
FinalizedByPlace(chunk) ==
    [content |-> chunk.content,
     heading |-> chunk.heading,
     level |-> chunk.level,
     path |-> chunk.path,
     token_count |-> chunk.token_count,
     id |-> generate_chunk_id(chunk.content \o [i \in 1..chunk.start_pos |-> "#"]),
     own |-> chunk.own, from |-> chunk.from, to |-> chunk.to,
     sec |-> chunk.sec, pass |-> chunk.pass, seed |-> chunk.seed, units |-> chunk.units,
     members |-> chunk.members, first |-> chunk.first, last |-> chunk.last]

\* id added, start_pos and end_pos deleted
Finalized(chunk) ==
    [content |-> chunk.content,
     heading |-> chunk.heading,
     level |-> chunk.level,
     path |-> chunk.path,
     token_count |-> chunk.token_count,
     id |-> generate_chunk_id(chunk.content),
     own |-> chunk.own, from |-> chunk.from, to |-> chunk.to,
     sec |-> chunk.sec, pass |-> chunk.pass, seed |-> chunk.seed, units |-> chunk.units,
     members |-> chunk.members, first |-> chunk.first, last |-> chunk.last]

RECURSIVE FinalizeAll(_)
FinalizeAll(cs) ==
    IF cs = <<>> THEN <<>> ELSE <<Finalized(Head(cs))>> \o FinalizeAll(Tail(cs))

(***************************************************************************)
(* PdfToMarkdownConverter (src/pdf2md/pdf_to_md.py).  The PDF at pdf_path  *)
(* is what pdfplumber gives for it: whether the file exists, whether it    *)
(* opens, and for every page its text and its tables.                      *)
(***************************************************************************)
UpperLetters ==
    { "A", "B", "C", "D", "E", "F", "G", "H", "I", "J", "K", "L", "M", "N",
      "O", "P", "Q", "R", "S", "T", "U", "V", "W", "X", "Y", "Z" }

LowerLetters ==
    { "a", "b", "c", "d", "e", "f", "g", "h", "i", "j", "k", "l", "m", "n",
      "o", "p", "q", "r", "s", "t", "u", "v", "w", "x", "y", "z" }

DecimalDigits == <<"0", "1", "2", "3", "4", "5", "6", "7", "8", "9">>

IsDigit(c) == \E d \in 1..Len(DecimalDigits) : DecimalDigits[d] = c

\* \w
IsWordChar(c) == c \in UpperLetters \/ c \in LowerLetters \/ IsDigit(c) \/ c = "_"

\* str.isupper(): some cased character, and no lower-case one
isupper(s) ==
    /\ \E i \in 1..Len(s) : s[i] \in UpperLetters
    /\ \A i \in 1..Len(s) : s[i] \notin LowerLetters

\* len(text) > 100
HeadingMaxLength == 100

\* len(text) < 50
ShortHeadingLength == 50

\* a variant that takes a text of exactly 50 characters for short
is_heading_of_upto(stripped, prev_text) ==
    IF stripped = <<>> \/ Len(stripped) > HeadingMaxLength THEN FALSE
    ELSE IF isupper(stripped)
            \/ (Strip(prev_text) = <<>> /\ Len(stripped) <= ShortHeadingLength)
    THEN TRUE
    ELSE FALSE

\* is_heading after text = text.strip()
is_heading_of(stripped, prev_text) ==
    IF stripped = <<>> \/ Len(stripped) > HeadingMaxLength THEN FALSE
    ELSE IF isupper(stripped)
            \/ (Strip(prev_text) = <<>> /\ Len(stripped) < ShortHeadingLength)
    THEN TRUE
    ELSE FALSE

is_heading(heading, prev_text) == is_heading_of(Strip(heading), prev_text)

IsWordAt(s, p) == p >= 0 /\ p < Len(s) /\ IsWordChar(At(s, p))

\* \b\w+\^\d+ matches with its "^" at offset q
PowerAt(s, q) ==
    /\ IsWordAt(s, q - 1)
    /\ At(s, q) = "^"
    /\ q + 1 < Len(s)
    /\ IsDigit(At(s, q + 1))

SqrtOpen == <<"s", "q", "r", "t", "(">>

\* \bsqrt\(.+?\) matches from offset p
SqrtAt(s, p) ==
    /\ ~IsWordAt(s, p - 1)
    /\ StartsWithAt(s, p, SqrtOpen)
    /\ \E r \in (p + Len(SqrtOpen) + 1)..(Len(s) - 1) :
           /\ At(s, r) = ")"
           /\ \A j \in (p + Len(SqrtOpen))..(r - 1) : At(s, j) # NL

\* [\w\d]+/[\/\w\d]+ matches with its "/" at offset q
FractionAt(s, q) ==
    /\ IsWordAt(s, q - 1)
    /\ At(s, q) = "/"
    /\ q + 1 < Len(s)
    /\ (At(s, q + 1) = "/" \/ IsWordAt(s, q + 1))

\* re.search(formula_pattern, text)
FormulaFound(s) ==
    \E p \in 0..(Len(s) - 1) : PowerAt(s, p) \/ SqrtAt(s, p) \/ FractionAt(s, p)

format_formula(s) == IF FormulaFound(s) THEN <<"$">> \o s \o <<"$">> ELSE s

\* text.split("\n")
RECURSIVE Split(_, _)
Split(s, from) ==
    IF \E p \in from..(Len(s) - 1) : At(s, p) = NL
    THEN << PySlice(s, from, FindFrom(s, <<NL>>, from)) >>
         \o Split(s, FindFrom(s, <<NL>>, from) + 1)
    ELSE << PyFrom(s, from) >>

\* str(n) for n >= 0
RECURSIVE DecimalOf(_)
DecimalOf(n) ==
    IF n < 10 THEN << DecimalDigits[n + 1] >>
    ELSE DecimalOf(n \div 10) \o << DecimalDigits[(n % 10) + 1] >>

BookTitle == <<"#", " ", "C", "o", "n", "v", "e", "r", "t", "e", "d", " ", "P", "D", "F", " ", "B", "o", "o", "k", NL, NL>>

PageTitle(page_num) == <<"#", "#", " ", "P", "a", "g", "e", " ">> \o DecimalOf(page_num) \o <<NL, NL>>

HeadingPrefix == <<"#", "#", "#", " ">>

LineBreak == <<" ", " ", NL>>

TablesTitle == <<"#", "#", "#", " ", "T", "a", "b", "l", "e", "s", NL, NL>>

\* what one line adds to page_text; stripped is line.strip()
LineMarkdown(stripped, prev_text) ==
    IF stripped = <<>> THEN <<NL>>
    ELSE IF is_heading(stripped, prev_text)
    THEN HeadingPrefix \o stripped \o <<NL, NL>>
    ELSE format_formula(stripped) \o LineBreak

\* the loop over lines from line k: the text added and prev_text after it
RECURSIVE LinesMarkdown(_, _, _)
LinesMarkdown(lines, k, prev_text) ==
    IF k > Len(lines) THEN [md |-> <<>>, prev_text |-> prev_text]
    ELSE LET stripped == Strip(lines[k])
             rest == LinesMarkdown(lines, k + 1,
                                   IF stripped = <<>> THEN prev_text ELSE stripped)
         IN  [md |-> LineMarkdown(stripped, prev_text) \o rest.md,
              prev_text |-> rest.prev_text]

\* "| " + " | ".join(row) + " |\n"
RowMarkdown(row) == <<"|", " ">> \o Join(row, <<" ", "|", " ">>) \o <<" ", "|", NL>>

Dashes == <<"-", "-", "-">>

RECURSIVE RowsMarkdown(_, _)
RowsMarkdown(table, k) ==
    IF k > Len(table) THEN <<>>
    ELSE RowMarkdown(table[k]) \o RowsMarkdown(table, k + 1)

\* table_md + "\n\n" for one table, nothing for an empty one
TableMarkdown(table) ==
    IF table = <<>> \/ table[1] = <<>> THEN <<>>
    ELSE RowMarkdown(table[1])
         \o RowMarkdown([j \in 1..Len(table[1]) |-> Dashes])
         \o RowsMarkdown(table, 2)
         \o <<NL, NL>>

RECURSIVE EachTableMarkdown(_, _)
EachTableMarkdown(tables, k) ==
    IF k > Len(tables) THEN <<>>
    ELSE TableMarkdown(tables[k]) \o EachTableMarkdown(tables, k + 1)

\* table_content of a page
TablesMarkdown(tables) ==
    IF tables = <<>> THEN <<>> ELSE TablesTitle \o EachTableMarkdown(tables, 1)

\* the loop over pdf.pages from page k
RECURSIVE PagesMarkdown(_, _, _)
PagesMarkdown(pages, k, prev_text) ==
    IF k > Len(pages) THEN <<>>
    ELSE LET body == LinesMarkdown(Split(pages[k].text, 0), 1, prev_text)
         IN  PageTitle(k) \o body.md \o TablesMarkdown(pages[k].tables)
             \o PagesMarkdown(pages, k + 1, body.prev_text)

\* markdown_content of convert
ConvertedMarkdown(pages) == BookTitle \o PagesMarkdown(pages, 1, <<>>)

(***************************************************************************)
(* The inputs: documents and configurations.                                *)
(***************************************************************************)
\* the largest max_chunk_size of a configuration
MaxChunkBound == 3

\* the largest number of parts of a generated document
MaxParts == 4

\* the largest number of parts of a generated document of headings
MaxHeadingParts == 5

A8 == <<"a", "a", "a", "a", "a", "a", "a", "a">>

\* the parts a generated document is made of
Parts == { A8, <<"a">>, <<".", " ">>, <<NL, NL>>, <<"$">>, <<"#", " ">> }

\* the parts a generated document of headings is made of
HeadingParts == { <<"#">>, <<"#", "#", "#">>, <<" ">>, <<NL>>, <<"a">> }

\* the documents made of at most n of the parts
RECURSIVE DocsOfParts(_, _)
DocsOfParts(parts, n) ==
    IF n = 0 THEN { <<>> }
    ELSE { d \o q : d \in DocsOfParts(parts, n - 1), q \in parts \cup { <<>> } }

GeneratedDocs == DocsOfParts(Parts, MaxParts)

HeadingDocs == DocsOfParts(HeadingParts, MaxHeadingParts)

\* Scenario 2 of the specification: "# A\n\ntext1\n\n## B\ntext2"
Scenario2Doc ==
    <<"#", " ", "A", NL, NL, "t", "e", "x", "t", "1", NL, NL,
      "#", "#", " ", "B", NL, "t", "e", "x", "t", "2">>

\* a section that does not start at offset 0 and holds a short paragraph and
\* an oversized one: "aaaaa\n# a\n\naaaaaaaa"
LateSectionDoc ==
    <<"a", "a", "a", "a", "a", NL, "#", " ", "a", NL, NL>> \o A8

\* an oversized paragraph, a short one, and an oversized paragraph that starts
\* with a short sentence: "a{16}\n\na\n\na. a{16}"
ThreeParagraphsDoc ==
    A8 \o A8 \o <<NL, NL, "a", NL, NL, "a", ".", " ">> \o A8 \o A8

\* a paragraph that ends with a formula, a blank line, and a paragraph:
\* "$a$\n\naaaaaaaa"
FormulaParagraphDoc == <<"$", "a", "$", NL, NL>> \o A8

\* a section that starts at offset 4 and holds a formula with a sentence end
\* in it: "aaa\n# a\n$a. a$"
LateFormulaDoc ==
    <<"a", "a", "a", NL, "#", " ", "a", NL, "$", "a", ".", " ", "a", "$">>

\* two sections of one level with one title, the second with an oversized
\* paragraph and a short one: "# a\n# a\n\na{16}\n\n$"
RepeatedTitleDoc ==
    <<"#", " ", "a", NL, "#", " ", "a", NL, NL>> \o A8 \o A8 \o <<NL, NL, "$">>

ScenarioDocs ==
    { Scenario2Doc, LateSectionDoc, ThreeParagraphsDoc, FormulaParagraphDoc,
      LateFormulaDoc, RepeatedTitleDoc }

Documents == GeneratedDocs \cup ScenarioDocs

\* max_chunk_size > min_chunk_size >= 0 and 0 <= overlap_size < max_chunk_size
Configs ==
    { c \in [max : 1..MaxChunkBound, min : 0..MaxChunkBound, overlap : 0..MaxChunkBound] :
        c.min < c.max /\ c.overlap < c.max }

\* the defaults of MarkdownChunker.__init__
DefaultMaxChunkSize == 1024

DefaultOverlapSize == 200

DefaultMinChunkSize == 100

DefaultConfig ==
    [max |-> DefaultMaxChunkSize, min |-> DefaultMinChunkSize,
     overlap |-> DefaultOverlapSize]

(***************************************************************************)
(* The state: the fields of a MarkdownChunker (input_file stands for the   *)
(* file it names), the locals of create_semantic_chunks, and pc, the place *)
(* of the call of process().                                               *)
(***************************************************************************)
VARIABLES input_file, content, max_chunk_size, overlap_size, min_chunk_size,
          pc, headings, initial_chunks, large_chunks_processed, final_chunks, chunks

\* a call of _get_overlap_text on its own: its argument and what it returns
VARIABLES closed_text, overlap_text

\* chunk_markdown_file: the output_format asked for, the file at the output
\* path, the number of calls of save_chunks, and what the function returned
VARIABLES output_format, output_file, save_calls, returned

\* the calls of process() on one chunker: how many have begun, and the file
\* as it was when the last of them began
VARIABLES calls, file_at_call

\* a call of convert(): the PDF at pdf_path, the file at output_md_path, and
\* what the call returned
VARIABLES pdf_file, md_file, convert_returned

\* a call of is_heading on its own: its arguments and what it returned
VARIABLES heading_text, heading_prev, heading_returned

vars == << input_file, content, max_chunk_size, overlap_size, min_chunk_size,
           pc, headings, initial_chunks, large_chunks_processed, final_chunks, chunks,
           closed_text, overlap_text,
           output_format, output_file, save_calls, returned,
           calls, file_at_call,
           pdf_file, md_file, convert_returned,
           heading_text, heading_prev, heading_returned >>

\* the state of the converter
converter == << pdf_file, md_file, convert_returned,
                heading_text, heading_prev, heading_returned >>

\* what a call of process() leaves alone
others == << closed_text, overlap_text,
             output_format, output_file, save_calls, returned,
             calls, file_at_call, converter >>

\* the first call of process() on the chunker has begun
FirstCall ==
    /\ calls = 1
    /\ file_at_call = input_file

\* no file at the output path
Absent == [exists |-> FALSE, rows |-> <<>>]

\* _get_overlap_text is not called on its own
OverlapIdle ==
    /\ closed_text = <<>>
    /\ overlap_text = <<>>

\* process() is not called by chunk_markdown_file
FileIdle ==
    /\ output_format = "jsonl"
    /\ output_file = Absent
    /\ save_calls = 0
    /\ returned = "pending"

\* no PDF at pdf_path
Missing == [exists |-> FALSE, opens |-> FALSE, pages |-> <<>>]

\* no file at output_md_path
NoMarkdown == [exists |-> FALSE, text |-> <<>>]

\* is_heading is not called on its own
HeadingIdle ==
    /\ heading_text = <<>>
    /\ heading_prev = <<>>
    /\ heading_returned = "pending"

\* no PDF is converted
ConverterIdle ==
    /\ pdf_file = Missing
    /\ md_file = NoMarkdown
    /\ convert_returned = "pending"
    /\ HeadingIdle

OthersIdle ==
    /\ OverlapIdle
    /\ FileIdle
    /\ FirstCall
    /\ ConverterIdle

config == << input_file, max_chunk_size, overlap_size, min_chunk_size >>

\* MarkdownChunker.__init__, for one of the files and one of the configurations
Constructed(files, configs) ==
    /\ input_file \in files
    /\ \E c \in configs :
         /\ max_chunk_size = c.max
         /\ overlap_size = c.overlap
         /\ min_chunk_size = c.min
    /\ content = <<>>
    /\ chunks = <<>>
    /\ pc = "start"
    /\ headings = <<>>
    /\ initial_chunks = <<>>
    /\ large_chunks_processed = <<>>
    /\ final_chunks = <<>>

Readable(docs) == { [readable |-> TRUE, text |-> d] : d \in docs }

Unreadable == [readable |-> FALSE, text |-> <<>>]

Init == Constructed(Readable(Documents) \cup {Unreadable}, Configs) /\ OthersIdle

\* the documents of headings, chunked with the default configuration
InitHeadings ==
    Constructed(Readable(HeadingDocs) \cup {Unreadable}, {DefaultConfig}) /\ OthersIdle

\* create_semantic_chunks, entry: load_markdown when self.content is empty
LoadMarkdown ==
    /\ pc = "start"
    /\ IF content = <<>>
       THEN IF input_file.readable
            THEN content' = input_file.text /\ pc' = "headings" /\ chunks' = chunks
            ELSE content' = content /\ pc' = "done" /\ chunks' = <<>>
       ELSE content' = content /\ pc' = "headings" /\ chunks' = chunks
    /\ UNCHANGED << config, others, headings, initial_chunks, large_chunks_processed, final_chunks >>

\* headings = self.extract_heading_structure()
ExtractHeadings ==
    /\ pc = "headings"
    /\ headings' = extract_heading_structure(content)
    /\ pc' = "slice"
    /\ UNCHANGED << config, others, content, initial_chunks, large_chunks_processed,
                    final_chunks, chunks >>

\* the loop that fills initial_chunks
SliceIntoSections ==
    /\ pc = "slice"
    /\ initial_chunks' = SliceSections(content, headings, 1)
    /\ pc' = "split"
    /\ UNCHANGED << config, others, content, headings, large_chunks_processed,
                    final_chunks, chunks >>

\* the loop that fills large_chunks_processed
SplitLargeChunks ==
    /\ pc = "split"
    /\ large_chunks_processed' =
           ProcessLargeChunks(initial_chunks, max_chunk_size, overlap_size)
    /\ pc' = "merge"
    /\ UNCHANGED << config, others, content, headings, initial_chunks, final_chunks, chunks >>

\* final_chunks = self._merge_small_chunks(large_chunks_processed)
MergeSmallChunks ==
    /\ pc = "merge"
    /\ final_chunks' =
           merge_small_chunks(large_chunks_processed, min_chunk_size, max_chunk_size)
    /\ pc' = "finalize"
    /\ UNCHANGED << config, others, content, headings, initial_chunks,
                    large_chunks_processed, chunks >>

\* ids added, positions removed; process() stores the result in self.chunks
FinalizeChunks ==
    /\ pc = "finalize"
    /\ chunks' = FinalizeAll(final_chunks)
    /\ pc' = "done"
    /\ UNCHANGED << config, others, content, headings, initial_chunks,
                    large_chunks_processed, final_chunks >>

Next ==
    \/ LoadMarkdown
    \/ ExtractHeadings
    \/ SliceIntoSections
    \/ SplitLargeChunks
    \/ MergeSmallChunks
    \/ FinalizeChunks

Spec == Init /\ [][Next]_vars

SpecHeadings == InitHeadings /\ [][Next]_vars

(***************************************************************************)
(* _get_overlap_text on its own: a chunker with some overlap_size is handed *)
(* the text of a closed buffer.                                             *)
(***************************************************************************)
\* the largest overlap_size of a call of _get_overlap_text on its own
MaxOverlapBound == 2

\* the largest number of parts of a closed text
MaxOverlapParts == 5

\* the parts a closed text is made of
OverlapParts ==
    { <<"$", "$">>, <<"$">>, <<"a", "a">>, <<"a", "a", "a", "a">>, <<NL>>, <<".", " ">> }

OverlapTexts == DocsOfParts(OverlapParts, MaxOverlapParts)

\* no file is chunked
NoProcess ==
    /\ input_file = Unreadable
    /\ content = <<>>
    /\ chunks = <<>>
    /\ headings = <<>>
    /\ initial_chunks = <<>>
    /\ large_chunks_processed = <<>>
    /\ final_chunks = <<>>

InitOverlap ==
    /\ NoProcess
    /\ max_chunk_size = DefaultMaxChunkSize
    /\ min_chunk_size = DefaultMinChunkSize
    /\ overlap_size \in 0..MaxOverlapBound
    /\ closed_text \in OverlapTexts
    /\ overlap_text = <<>>
    /\ pc = "get_overlap_text"
    /\ FileIdle
    /\ ConverterIdle
    /\ calls = 0
    /\ file_at_call = input_file

\* overlap_text = self._get_overlap_text(current_chunk_text)
GetOverlapText ==
    /\ pc = "get_overlap_text"
    /\ overlap_text' = get_overlap_text(closed_text, overlap_size)
    /\ pc' = "returned"
    /\ UNCHANGED << config, converter, content, headings, initial_chunks,
                    large_chunks_processed, final_chunks, chunks, closed_text,
                    output_format, output_file, save_calls, returned,
                    calls, file_at_call >>

NextOverlap == GetOverlapText

SpecOverlap == InitOverlap /\ [][NextOverlap]_vars

(***************************************************************************)
(* chunk_markdown_file: a chunker is constructed, process() is called, and *)
(* save_chunks writes what it returned.                                     *)
(***************************************************************************)
\* the largest number of parts of a document handed to chunk_markdown_file
MaxFileParts == 2

FileDocs == DocsOfParts(Parts, MaxFileParts)

\* the formats save_chunks knows
KnownFormats == {"jsonl", "json", "csv"}

\* the strings a caller passes as output_format
OutputFormats == KnownFormats \cup {"xml"}

\* a file that was at the output path before the call
OldFile == [exists |-> TRUE, rows |-> << [old |-> TRUE] >>]

InitialOutputFiles == {Absent, OldFile}

InitFile ==
    /\ Constructed(Readable(FileDocs) \cup {Unreadable}, Configs)
    /\ OverlapIdle
    /\ output_format \in OutputFormats
    /\ output_file \in InitialOutputFiles
    /\ save_calls = 0
    /\ returned = "pending"
    /\ FirstCall
    /\ ConverterIdle

\* the fields of a chunk that the csv writer keeps
CsvRow(chunk) ==
    [id |-> chunk.id, heading |-> chunk.heading, path |-> chunk.path,
     token_count |-> chunk.token_count, content |-> chunk.content]

\* what save_chunks writes for the chunks, one row for each
Rows(format, cs) ==
    IF format = "csv" THEN [k \in 1..Len(cs) |-> CsvRow(cs[k])] ELSE cs

\* if not chunks: return False
ReturnNoChunks ==
    /\ pc = "done"
    /\ returned = "pending"
    /\ chunks = <<>>
    /\ returned' = "False"
    /\ UNCHANGED << config, converter, content, pc, headings, initial_chunks,
                    large_chunks_processed, final_chunks, chunks,
                    closed_text, overlap_text, output_format, output_file, save_calls,
                    calls, file_at_call >>

\* save_chunks for a format it knows: the file is opened for writing and the
\* rows are written; open or a write may raise, and then it returns False
WriteFile(format) ==
    \/ /\ output_file' = [exists |-> TRUE, rows |-> Rows(format, chunks)]
       /\ returned' = "True"
    \/ /\ output_file' = output_file
       /\ returned' = "False"
    \/ /\ \E n \in 0..(Len(chunks) - 1) :
              output_file' = [exists |-> TRUE,
                              rows |-> SubSeq(Rows(format, chunks), 1, n)]
       /\ returned' = "False"

\* return chunker.save_chunks(output_file)
SaveChunks ==
    /\ pc = "done"
    /\ returned = "pending"
    /\ chunks # <<>>
    /\ save_calls' = save_calls + 1
    /\ IF output_format \in KnownFormats
       THEN WriteFile(output_format)
       ELSE output_file' = output_file /\ returned' = "True"
    /\ UNCHANGED << config, converter, content, pc, headings, initial_chunks,
                    large_chunks_processed, final_chunks, chunks,
                    closed_text, overlap_text, output_format, calls, file_at_call >>

NextFile ==
    \/ Next
    \/ ReturnNoChunks
    \/ SaveChunks

SpecFile == InitFile /\ [][NextFile]_vars

(***************************************************************************)
(* process() called again on the same chunker, after the input file has     *)
(* changed.                                                                 *)
(***************************************************************************)
\* the largest number of calls of process() on one chunker
MaxCalls == 2

\* the largest number of parts of a document of a chunker that is used again
MaxReuseParts == 1

ReuseDocs == DocsOfParts(Parts, MaxReuseParts)

ReuseFiles == Readable(ReuseDocs) \cup {Unreadable}

InitReuse == Constructed(ReuseFiles, Configs) /\ OthersIdle

\* between two calls the file is written anew, removed, or created
FileChanges ==
    /\ pc = "done"
    /\ calls < MaxCalls
    /\ input_file' \in ReuseFiles \ {input_file}
    /\ UNCHANGED << converter,
                    max_chunk_size, overlap_size, min_chunk_size, content, pc, headings,
                    initial_chunks, large_chunks_processed, final_chunks, chunks,
                    closed_text, overlap_text, output_format, output_file, save_calls,
                    returned, calls, file_at_call >>

\* process() is called again: the locals of create_semantic_chunks are new,
\* self.content and self.chunks are those the chunker has
ProcessAgain ==
    /\ pc = "done"
    /\ calls < MaxCalls
    /\ calls' = calls + 1
    /\ file_at_call' = input_file
    /\ pc' = "start"
    /\ headings' = <<>>
    /\ initial_chunks' = <<>>
    /\ large_chunks_processed' = <<>>
    /\ final_chunks' = <<>>
    /\ UNCHANGED << config, converter, content, chunks, closed_text, overlap_text,
                    output_format, output_file, save_calls, returned >>

NextReuse ==
    \/ Next
    \/ FileChanges
    \/ ProcessAgain

SpecReuse == InitReuse /\ [][NextReuse]_vars

\* what create_semantic_chunks returns for a chunker that has not loaded
\* anything yet, when the file holds text
ChunksOfText(text, max, overlap, min) ==
    FinalizeAll(
        merge_small_chunks(
            ProcessLargeChunks(SliceSections(text, extract_heading_structure(text), 1),
                               max, overlap),
            min, max))

ChunksOfFile(file, max, overlap, min) ==
    IF file.readable THEN ChunksOfText(file.text, max, overlap, min) ELSE <<>>

(***************************************************************************)
(* PdfToMarkdownConverter.convert: a converter is constructed for a PDF     *)
(* path and an output path, and convert() is called once.                   *)
(***************************************************************************)
MaxPages == 2

\* what page.extract_text() gives ("" where it gives None)
PageTexts ==
    { <<>>,
      <<"a", NL, "B">>,
      <<" ", "a", "^", "2", " ", NL, NL, "A">>,
      <<"s", "q", "r", "t", "(", "x", ")", NL, "a", "/", "b">> }

\* what page.extract_tables() gives: no table, or an empty one and one of a
\* header and a row
PageTables ==
    { <<>>,
      << <<>>, << << <<"a">>, <<>> >>, << <<"1">>, <<"2">> >> >> >> }

PdfPage == [text : PageTexts, tables : PageTables]

PagesOfLength(n) == [1..n -> PdfPage]

\* a PDF that pdfplumber opens
Opens(pages) == [exists |-> TRUE, opens |-> TRUE, pages |-> pages]

\* a file at pdf_path that pdfplumber cannot open
Damaged == [exists |-> TRUE, opens |-> FALSE, pages |-> <<>>]

PdfFiles ==
    {Missing, Damaged}
    \cup { Opens(pages) : pages \in UNION { PagesOfLength(n) : n \in 0..MaxPages } }

\* a markdown file left at output_md_path by an earlier run
OldMarkdown == [exists |-> TRUE, text |-> <<"#", " ", "o", "l", "d", NL>>]

InitialMarkdownFiles == {NoMarkdown, OldMarkdown}

\* no chunker runs
ChunkerIdle ==
    /\ NoProcess
    /\ max_chunk_size = DefaultMaxChunkSize
    /\ overlap_size = DefaultOverlapSize
    /\ min_chunk_size = DefaultMinChunkSize
    /\ OverlapIdle
    /\ FileIdle
    /\ calls = 0
    /\ file_at_call = input_file

InitConvert ==
    /\ ChunkerIdle
    /\ pc = "convert"
    /\ pdf_file \in PdfFiles
    /\ md_file \in InitialMarkdownFiles
    /\ convert_returned = "pending"
    /\ HeadingIdle

\* a variant that opens the output file before it looks for the PDF
RaiseFileNotFoundAfterOpen ==
    /\ md_file' = [exists |-> TRUE, text |-> <<>>]
    /\ convert_returned' = "False"

\* raise FileNotFoundError, caught by except Exception: return False
RaiseFileNotFound ==
    /\ md_file' = md_file
    /\ convert_returned' = "False"

\* pdfplumber.open raises, caught by except Exception: return False
RaiseOnOpen ==
    /\ md_file' = md_file
    /\ convert_returned' = "False"

\* with open(self.output_md_path, 'w') as f: f.write(markdown_content); open
\* or write may raise, and then convert returns False
WriteMarkdown(markdown_content) ==
    \/ /\ md_file' = [exists |-> TRUE, text |-> markdown_content]
       /\ convert_returned' = "True"
    \/ /\ md_file' = md_file
       /\ convert_returned' = "False"
    \/ /\ \E n \in 0..(Len(markdown_content) - 1) :
              md_file' = [exists |-> TRUE, text |-> SubSeq(markdown_content, 1, n)]
       /\ convert_returned' = "False"

\* convert()
Convert ==
    /\ pc = "convert"
    /\ pc' = "converted"
    /\ IF ~pdf_file.exists THEN RaiseFileNotFound
       ELSE IF ~pdf_file.opens THEN RaiseOnOpen
       ELSE WriteMarkdown(ConvertedMarkdown(pdf_file.pages))
    /\ UNCHANGED << config, content, headings, initial_chunks, large_chunks_processed,
                    final_chunks, chunks, closed_text, overlap_text,
                    output_format, output_file, save_calls, returned,
                    calls, file_at_call,
                    pdf_file, heading_text, heading_prev, heading_returned >>

NextConvert == Convert

SpecConvert == InitConvert /\ [][NextConvert]_vars

(***************************************************************************)
(* is_heading on its own: a converter is handed a line and the line before  *)
(* it.                                                                      *)
(***************************************************************************)
MaxLineLength == 101

\* n times the character c
Repeated(c, n) == [j \in 1..n |-> c]

\* lines of one kind of character, and lines of a capital followed by others
LineBodies ==
    UNION { { Repeated("A", n), Repeated("a", n), Repeated("1", n),
              IF n = 0 THEN <<>> ELSE <<"A">> \o Repeated("a", n - 1),
              IF n = 0 THEN <<>> ELSE <<"A">> \o Repeated("1", n - 1) }
            : n \in 0..MaxLineLength }

Margins == { <<>>, <<" ">> }

HeadingTexts == { l \o body \o r : l \in Margins, body \in LineBodies, r \in Margins }

PrevTexts == { <<>>, <<" ">>, <<"a">>, <<" ", "a", " ">>, <<NL>> }

InitHeading ==
    /\ ChunkerIdle
    /\ pc = "is_heading"
    /\ pdf_file = Missing
    /\ md_file = NoMarkdown
    /\ convert_returned = "pending"
    /\ heading_text \in HeadingTexts
    /\ heading_prev \in PrevTexts
    /\ heading_returned = "pending"

\* self.is_heading(text, prev_text)
IsHeading ==
    /\ pc = "is_heading"
    /\ pc' = "returned"
    /\ heading_returned' = IF is_heading(heading_text, heading_prev) THEN "True" ELSE "False"
    /\ UNCHANGED << config, content, headings, initial_chunks, large_chunks_processed,
                    final_chunks, chunks, closed_text, overlap_text,
                    output_format, output_file, save_calls, returned,
                    calls, file_at_call,
                    pdf_file, md_file, convert_returned, heading_text, heading_prev >>

NextHeading == IsHeading

SpecHeading == InitHeading /\ [][NextHeading]_vars

(***************************************************************************)
(* The properties.  Where process() stands decides what a property can     *)
(* speak of: the sections exist once pc has passed "slice", the sub-chunks *)
(* once it has passed "split", the output when it is "done".               *)
(***************************************************************************)
Sliced == pc \in {"split", "merge", "finalize", "done"}

SplitDone == pc \in {"merge", "finalize", "done"}

\* process() returned the chunks of a document it could read
Chunked == pc = "done" /\ input_file.readable

\* a chunk that is one unit of text, nothing before it in its buffer, and by
\* itself larger than max
Indivisible(chunk, max) ==
    /\ chunk.units = 1
    /\ chunk.seed = <<>>
    /\ estimate_tokens(chunk.own) > max

\* C1: every chunk of the output has token_count <= max_chunk_size, unless it
\* is a single indivisible unit that is by itself larger than max_chunk_size.
\* The code does not keep this: a buffer seeded with overlap text and then
\* extended by a unit that fits on its own is emitted above the limit.
SizeBound ==
    Chunked =>
        \A k \in 1..Len(chunks) :
            \/ chunks[k].token_count <= max_chunk_size
            \/ Indivisible(chunks[k], max_chunk_size)

\* the offset p lies strictly inside one of the formula spans
CutsFormula(spans, p) ==
    \E j \in 1..Len(spans) : spans[j][1] < p /\ p < spans[j][2]

\* chunk k and chunk k + 1 are consecutive sub-chunks of one split section
SplitBoundary(cs, k) ==
    /\ cs[k].sec = cs[k + 1].sec
    /\ cs[k].pass # "section"
    /\ cs[k + 1].pass # "section"

\* C2: no boundary between two consecutive sub-chunks of a split section lies
\* strictly inside a formula span of the document.  The code does not keep
\* this: the fixed-width pass cuts every chars_per_chunk characters without
\* looking at the formula spans.
FormulaSafety ==
    SplitDone =>
        \A k \in 1..(Len(large_chunks_processed) - 1) :
            SplitBoundary(large_chunks_processed, k) =>
                /\ ~CutsFormula(extract_formula_boundaries(content),
                                large_chunks_processed[k].to)
                /\ ~CutsFormula(extract_formula_boundaries(content),
                                large_chunks_processed[k + 1].from)

\* the own text (content without the overlap seed) of the chunks, in order
OwnTexts(cs) == [k \in 1..Len(cs) |-> cs[k].own]

\* C3: the own content of the finalized chunks (their content without the
\* overlap seed and without the separators of the merge pass), concatenated
\* in output order, reproduces the document, no character dropped.
\* The code does not keep this: units are stripped, and the separators
\* between the units of different chunks are dropped.
Coverage ==
    Chunked => Concat(OwnTexts(chunks)) = content

Merging == pc \in {"finalize", "done"} /\ input_file.readable

\* the sequence the merge pass walks
WalkedChunks == SortByStart(Numbered(large_chunks_processed))

\* the condition under which the specification wants a chunk of tokens
\* tokens, of the section of chunk a, to pull in the chunk b
PullsIn(a, tokens, b, min, max) ==
    /\ a.path = b.path
    /\ a.level = b.level
    /\ tokens < min
    /\ tokens + b.token_count <= max

\* the output chunk o holds the chunks at places i and j of the input
HoldsBoth(o, i, j) ==
    /\ \E m \in 1..Len(o.members) : o.members[m] = i
    /\ \E n \in 1..Len(o.members) : o.members[n] = j

AccumulatorRule(walked, o, min, max) ==
    o.first < Len(walked) =>
        /\ PullsIn(walked[o.first], walked[o.first].token_count,
                   walked[o.first + 1], min, max)
           => o.last > o.first
        /\ o.last < Len(walked)
           => ~PullsIn(o, o.token_count, walked[o.last + 1], min, max)

OnlyChunkOfSection(cs, k) ==
    \A j \in 1..Len(cs) : cs[j].sec = cs[k].sec => j = k

\* C5: every finalized chunk has min_chunk_size <= token_count <=
\* max_chunk_size, unless it is the only chunk of its section and below
\* min_chunk_size, or a single indivisible unit above max_chunk_size.  The
\* code does not keep this: the merge pass only pulls later chunks into
\* earlier ones, so the last sub-chunk of a split section stays small.
FinalizedSize ==
    Chunked =>
        \A k \in 1..Len(chunks) :
            \/ /\ min_chunk_size <= chunks[k].token_count
               /\ chunks[k].token_count <= max_chunk_size
            \/ /\ chunks[k].token_count < min_chunk_size
               /\ OnlyChunkOfSection(chunks, k)
            \/ /\ chunks[k].token_count > max_chunk_size
               /\ Indivisible(chunks[k], max_chunk_size)

\* the chunks are in the order in which their own text occurs in the document
InDocumentOrder(cs) ==
    \A k \in 1..(Len(cs) - 1) :
        /\ cs[k].sec <= cs[k + 1].sec
        /\ cs[k].from <= cs[k + 1].from

\* the sort by start_pos finds nothing to reorder
SortedByStart(cs) ==
    \A k \in 1..(Len(cs) - 1) : cs[k].start_pos <= cs[k + 1].start_pos

\* C6: the finalized chunks are in document order, and the chunks handed to
\* the merge pass are already in non-decreasing start_pos order.  The code
\* does not keep this: in a section that does not start at offset 0 the
\* sub-chunks of an oversized paragraph get a start_pos from a search of the
\* section's text at a document offset, and the sort moves them.
DocumentOrder ==
    /\ SplitDone => SortedByStart(large_chunks_processed)
    /\ Chunked => InDocumentOrder(chunks)

\* the section has no blank line and no sentence end followed by whitespace
UnbrokenText(text) ==
    /\ ParaMatchesFrom(text, 0) = <<>>
    /\ SentenceMatchesFrom(text, 0) = <<>>

\* C10: an oversized section with no blank line and no sentence end followed
\* by whitespace falls through the paragraph pass to the sentence pass and
\* its fixed-width windows, and every sub-chunk has token_count <=
\* max_chunk_size, for any overlap_size below max_chunk_size.  The code does
\* not keep this: a window after the first is max_chunk_size * 4 characters
\* plus overlap_size * 4 characters of overlap.
Scenario3 ==
    SplitDone =>
        \A s \in 1..Len(initial_chunks) :
            /\ initial_chunks[s].token_count > max_chunk_size
            /\ UnbrokenText(initial_chunks[s].content)
            => \A k \in 1..Len(large_chunks_processed) :
                   large_chunks_processed[k].sec = initial_chunks[s].sec
                   => /\ large_chunks_processed[k].pass \in {"sent", "fixed"}
                      /\ large_chunks_processed[k].token_count <= max_chunk_size

\* the markers among the first i that are real headings
NamedMarkers(hs, i) == SelectSeq(SubSeq(hs, 1, i), LAMBDA h : h.level > 0)

TitlesOf(ms) == [j \in 1..Len(ms) |-> ms[j].title]

\* the path the specification gives the section led by marker i
ExpectedPathOf(ms) ==
    IF ms = <<>> THEN RootPath ELSE Join(TitlesOf(ms), PathSeparator)

ExpectedPath(hs, i) == ExpectedPathOf(NamedMarkers(hs, i))

HavePaths(cs, hs) ==
    \A k \in 1..Len(cs) : cs[k].path = ExpectedPath(hs, cs[k].sec)

\* no section was handed to the splitter
EverySectionFits ==
    \A k \in 1..Len(initial_chunks) : initial_chunks[k].token_count <= max_chunk_size

\* C7: the path of the section led by marker i is the titles of the markers
\* up to and including i that have level > 0, in document order, joined by
\* " > ", and "Root" when there is none, whatever the sections hold and
\* whether or not the sections of earlier headings were dropped as empty; the
\* document of Scenario 2, with max_chunk_size large enough for its sections,
\* gives exactly two chunks, heading "A" with path "A" and heading "B" with
\* path "A > B".
PathConstruction ==
    /\ Sliced /\ input_file.readable => HavePaths(initial_chunks, headings)
    /\ Chunked => HavePaths(chunks, headings)
    /\ Chunked /\ content = Scenario2Doc /\ EverySectionFits
       => /\ Len(chunks) = 2
          /\ chunks[1].heading = <<"A">>
          /\ chunks[1].path = <<"A">>
          /\ chunks[2].heading = <<"B">>
          /\ chunks[2].path = <<"A", " ", ">", " ", "B">>

\* the two chunks of Scenario 2
PathConstructionWitness ==
    /\ Chunked
    /\ content = Scenario2Doc
    /\ max_chunk_size = MaxChunkBound
    /\ Len(chunks) = 2
    /\ chunks[2].path = <<"A", " ", ">", " ", "B">>

HeadingsExtracted == pc \notin {"start", "headings"} /\ input_file.readable

Synthetic(title, position) == [level |-> 0, title |-> title, position |-> position]

\* a real heading starts at offset 0
HeadingAtStart(hs) == \E k \in 1..Len(hs) : hs[k].level > 0 /\ hs[k].position = 0

NoRealHeading(hs) == \A k \in 1..Len(hs) : hs[k].level = 0

\* C8: the markers are in strictly increasing position order, except that the
\* last may share its position with the one before it; the last marker is the
\* level-0 "END" marker at the length of the document; the first marker is
\* the level-0 "Document Start" marker at offset 0 if and only if no real
\* heading starts at offset 0; every other marker has a level in 1..6; a
\* document without headings has exactly the two markers and at most one
\* section, which spans the whole document.
HeadingIndexShape ==
    HeadingsExtracted =>
        /\ Len(headings) >= 2
        /\ \A k \in 1..(Len(headings) - 2) :
               headings[k].position < headings[k + 1].position
        /\ headings[Len(headings) - 1].position <= headings[Len(headings)].position
        /\ headings[Len(headings)] = Synthetic(EndTitle, Len(content))
        /\ headings[1] = Synthetic(DocumentStartTitle, 0) <=> ~HeadingAtStart(headings)
        /\ \A k \in 2..(Len(headings) - 1) : headings[k].level \in 1..MaxHashes
        /\ headings[1].level \in 0..MaxHashes
        /\ NoRealHeading(headings) =>
               /\ Len(headings) = 2
               /\ Sliced =>
                      /\ Len(initial_chunks) <= 1
                      /\ \A k \in 1..Len(initial_chunks) :
                             /\ initial_chunks[k].content = content
                             /\ initial_chunks[k].start_pos = 0
                             /\ initial_chunks[k].end_pos = Len(content)

\* a heading of six "#" at offset 0: no Document Start marker before it
HeadingIndexShapeWitness ==
    /\ pc = "done"
    /\ input_file.readable
    /\ Len(headings) = 2
    /\ headings[1].level = MaxHashes
    /\ headings[1].position = 0
    /\ headings[2].title = EndTitle

\* the document has no heading, is not whitespace-only, and is estimated
\* below max_chunk_size tokens
SmallPlainDocument ==
    /\ NoRealHeading(headings)
    /\ Strip(content) # <<>>
    /\ estimate_tokens(content) < max_chunk_size

\* C9: a document with no heading that is not whitespace-only and whose
\* estimated token count is below max_chunk_size gives exactly one chunk, with
\* level 0, path "Root", heading "Document Start" and the whole document as
\* its content.
Scenario1 ==
    Chunked /\ SmallPlainDocument =>
        /\ Len(chunks) = 1
        /\ chunks[1].level = 0
        /\ chunks[1].path = RootPath
        /\ chunks[1].heading = DocumentStartTitle
        /\ chunks[1].content = content

\* a plain document of two tokens chunked with max_chunk_size 3
Scenario1Witness ==
    /\ Chunked
    /\ SmallPlainDocument
    /\ Len(content) >= 8
    /\ Len(chunks) = 1
    /\ chunks[1].content = content

OverlapReturned == pc = "returned"

\* the offset in closed_text where the returned overlap starts
OverlapStart == Len(closed_text) - Len(overlap_text)

\* the span ends within the trailing overlap_size * 4 characters of the text
EndsInWindow(span, text, overlap) ==
    span[2] > Len(text) - overlap * CharsPerToken

\* the $$...$$ blocks of the text
DisplayBlocks(text) == DelimitedFrom(text, DisplayDelim, DisplayDelim, 0)

\* some block of spans ends within the trailing window
SomeEndsInWindow(spans, text, overlap) ==
    \E j \in 1..Len(spans) : EndsInWindow(spans[j], text, overlap)

\* the overlap is the text from the opening of a block that ends in the window
StartsAtBlock(spans, text, overlap, start) ==
    \E j \in 1..Len(spans) :
        EndsInWindow(spans[j], text, overlap) /\ spans[j][1] = start

\* C11: when the closed text holds a $$...$$ block that ends within its
\* trailing overlap_size * 4 characters, the overlap starts at the opening
\* "$$" of such a block, and the first character of the overlap is never
\* strictly inside a formula span of the closed text.  The code does not keep
\* this: it takes the last span in sorted order that ends in the window, and
\* for a $$...$$ block on one line that is the inline span found one
\* character inside the block.
OverlapStartsAtFormula ==
    OverlapReturned =>
        /\ overlap_text = PyFrom(closed_text, OverlapStart)
        /\ SomeEndsInWindow(DisplayBlocks(closed_text), closed_text, overlap_size)
           => StartsAtBlock(DisplayBlocks(closed_text), closed_text, overlap_size,
                            OverlapStart)
        /\ ~CutsFormula(extract_formula_boundaries(closed_text), OverlapStart)

\* C19: when no formula span of the closed text ends within its trailing
\* overlap_size * 4 characters, the overlap is a suffix of the text of at most
\* overlap_size * 4 characters, and it is empty when overlap_size is 0.  The
\* code does not keep this: with overlap_size 0 the slice text[-0:] is the
\* whole text.
OverlapLengthBound ==
    OverlapReturned
    /\ ~SomeEndsInWindow(extract_formula_boundaries(closed_text), closed_text,
                         overlap_size)
    => /\ overlap_text = PyFrom(closed_text, OverlapStart)
       /\ Len(overlap_text) <= overlap_size * CharsPerToken
       /\ overlap_size = 0 => overlap_text = <<>>

\* the sum of token_count over places a..b of cs
RECURSIVE RunTokens(_, _, _)
RunTokens(cs, a, b) ==
    IF a > b THEN 0 ELSE cs[a].token_count + RunTokens(cs, a + 1, b)

\* the contents of places a..b of cs with a blank line between them
RECURSIVE RunContent(_, _, _)
RunContent(cs, a, b) ==
    IF a >= b THEN cs[a].content
    ELSE cs[a].content \o <<NL, NL>> \o RunContent(cs, a + 1, b)

\* the output chunk o is the accumulator of places o.first..o.last of the
\* walked sequence: their contents joined, their token counts summed, the
\* end_pos of the last, everything else as in the first
IsRun(walked, o) ==
    /\ 1 <= o.first /\ o.first <= o.last /\ o.last <= Len(walked)
    /\ o.content = RunContent(walked, o.first, o.last)
    /\ o.token_count = RunTokens(walked, o.first, o.last)
    /\ o.end_pos = walked[o.last].end_pos
    /\ o.start_pos = walked[o.first].start_pos
    /\ o.heading = walked[o.first].heading
    /\ o.level = walked[o.first].level
    /\ o.path = walked[o.first].path

\* each chunk of the run after the first was merged because the test held for
\* the accumulator as it then was, and the chunk after the run was left out
\* because the test failed for the whole accumulator
RunByRule(walked, o, min, max) ==
    /\ \A i \in (o.first + 1)..o.last :
           PullsIn(walked[o.first], RunTokens(walked, o.first, i - 1),
                   walked[i], min, max)
    /\ o.last < Len(walked)
       => ~PullsIn(walked[o.first], o.token_count, walked[o.last + 1], min, max)

\* the runs follow each other and use up the walked sequence
RunsPartition(walked, out) ==
    /\ (walked = <<>>) <=> (out = <<>>)
    /\ out # <<>> => out[1].first = 1 /\ out[Len(out)].last = Len(walked)
    /\ \A k \in 1..(Len(out) - 1) : out[k + 1].first = out[k].last + 1

MergeRuleFor(walked, out, min, max) ==
    /\ RunsPartition(walked, out)
    /\ \A k \in 1..Len(out) : IsRun(walked, out[k]) /\ RunByRule(walked, out[k], min, max)
    /\ RunTokens(out, 1, Len(out)) = RunTokens(walked, 1, Len(walked))

ChunkTypeTagging ==
    Chunked =>
        \A k \in 1..Len(chunks) :
            /\ "chunk_type" \in DOMAIN chunks[k]
            /\ chunks[k].chunk_type = IF chunks[k].pass = "section" THEN "main" ELSE "sub"

\* the id is a string of 12 hex digits
IsId(id) ==
    /\ Len(id) = IdLength
    /\ \A j \in 1..Len(id) : \E d \in 1..Len(HexDigits) : id[j] = HexDigits[d]

\* C14: the id of a finalized chunk is a function of its final content only:
\* it is the digest of the content the chunk has after merging, so two chunks
\* with the same content have the same id whatever their heading, level,
\* path or position; every id is 12 hex digits, and no finalized chunk has a
\* start_pos or end_pos field.
ContentDerivedIds ==
    Chunked =>
        /\ \A k \in 1..Len(chunks) :
               /\ chunks[k].id = generate_chunk_id(chunks[k].content)
               /\ IsId(chunks[k].id)
               /\ "start_pos" \notin DOMAIN chunks[k]
               /\ "end_pos" \notin DOMAIN chunks[k]
        /\ \A j, k \in 1..Len(chunks) :
               chunks[j].content = chunks[k].content => chunks[j].id = chunks[k].id

\* two chunks with the same content at different places of the document, and
\* a chunk whose content was merged
ContentDerivedIdsWitness ==
    /\ Chunked
    /\ \E j, k \in 1..Len(chunks) :
           /\ chunks[j].content = chunks[k].content
           /\ chunks[j].from # chunks[k].from
           /\ chunks[j].id = chunks[k].id
    /\ \E k \in 1..Len(chunks) : Len(chunks[k].members) > 1

\* the output file holds a row for every chunk of the document
AllChunksWritten ==
    /\ output_file.exists
    /\ Len(output_file.rows) = Len(chunks)
    /\ \A k \in 1..Len(chunks) :
           /\ output_file.rows[k].id = chunks[k].id
           /\ output_file.rows[k].content = chunks[k].content

\* C15: when the input file cannot be read, chunk_markdown_file returns False,
\* save_chunks is not called and the file at the output path is neither
\* created nor modified; and chunk_markdown_file returns True only if the
\* output file was written with all chunks of the document.  The code does
\* not keep the second part: for an output_format it does not know,
\* save_chunks writes nothing and returns True.
InputUnavailable ==
    /\ ~input_file.readable /\ pc = "done"
       => /\ returned \in {"pending", "False"}
          /\ save_calls = 0
          /\ output_file \in InitialOutputFiles
    /\ returned = "True" => AllChunksWritten

\* C16: what a call of process() returns depends only on the text the input
\* file holds when the call is made and on the configuration: after every
\* call, first or later, self.chunks is the chunks of that text.  The code
\* does not keep this: a later call finds self.content set by the earlier one
\* and does not read the file again.
IndependentInvocations ==
    pc = "done" =>
        chunks = ChunksOfFile(file_at_call, max_chunk_size, overlap_size, min_chunk_size)

\* convert() has returned
Converted == pc = "converted"

\* C17: for every PDF path that does not exist, convert() returns False,
\* raises nothing to its caller, and neither creates nor writes the output
\* markdown file: the file at output_md_path is after the call what it was
\* before it, absent if it was absent.
GracefulFailure ==
    [][(pc = "convert" /\ pc' = "converted" /\ ~pdf_file.exists)
          => (convert_returned' = "False" /\ md_file' = md_file)]_vars

\* convert() has returned False for a PDF that does not exist, and the
\* markdown file of an earlier run is still what it was
GracefulFailureWitness ==
    /\ Converted
    /\ ~pdf_file.exists
    /\ convert_returned = "False"
    /\ md_file = OldMarkdown

\* is_heading has returned
HeadingReturned == heading_returned # "pending"

\* a text with a letter in it all of whose letters are capitals
EntirelyUpperCase(t) ==
    /\ \E i \in 1..Len(t) : t[i] \in UpperLetters \cup LowerLetters
    /\ \A i \in 1..Len(t) : t[i] \in UpperLetters \cup LowerLetters => t[i] \in UpperLetters

\* prev_text is blank after trimming and the trimmed text is shorter than 50
ShortAfterBlank(t, prev_text) == Strip(prev_text) = <<>> /\ Len(t) < 50

\* C18: is_heading(text, prev_text) is True exactly when the trimmed text is
\* non-empty, at most 100 characters long, and either entirely upper-case or
\* (prev_text is blank after trimming and the trimmed text is shorter than
\* 50 characters).  So a text that is not all upper-case and has 50 or more
\* characters is never a heading, and neither is a text that is not all
\* upper-case and follows a previous text that is not blank.
HeadingHeuristic ==
    HeadingReturned =>
        LET t == Strip(heading_text)
        IN  /\ heading_returned = "True"
                <=> /\ t # <<>>
                    /\ Len(t) <= 100
                    /\ EntirelyUpperCase(t) \/ ShortAfterBlank(t, heading_prev)
            /\ (~EntirelyUpperCase(t) /\ Len(t) >= 50) => heading_returned = "False"
            /\ (~EntirelyUpperCase(t) /\ Strip(heading_prev) # <<>>)
                   => heading_returned = "False"

\* a text of 49 characters that is not upper-case is taken for a heading
\* after a blank line, and an upper-case text of 100 characters after a line
\* that is not blank
HeadingHeuristicWitness ==
    /\ HeadingReturned
    /\ heading_returned = "True"
    /\ \/ /\ Len(Strip(heading_text)) = 49
          /\ ~EntirelyUpperCase(Strip(heading_text))
          /\ Strip(heading_prev) = <<>>
          /\ heading_text # Strip(heading_text)
       \/ /\ Len(Strip(heading_text)) = 100
          /\ EntirelyUpperCase(Strip(heading_text))
          /\ Strip(heading_prev) # <<>>

\* the last n characters of s, all of s when it has fewer
TailOf(s, n) == IF n >= Len(s) THEN s ELSE SubSeq(s, Len(s) - n + 1, Len(s))

\* sub-chunk k + 1 follows sub-chunk k in one split section
Continues(subs, k) ==
    /\ subs[k].pass # "section"
    /\ subs[k + 1].pass # "section"
    /\ subs[k + 1].sec = subs[k].sec

\* next begins with the overlap text of prev: what _get_overlap_text gives
\* for it, or its tail of overlap * 4 characters (nothing when overlap is 0)
CarriesOverlap(prev, next, overlap) ==
    \/ StartsWithAt(next.content, 0, get_overlap_text(prev.content, overlap))
    \/ StartsWithAt(next.content, 0, TailOf(prev.content, overlap * CharsPerToken))

\* C20: within one split section, every sub-chunk other than the first
\* begins with the overlap text computed from the sub-chunk emitted
\* immediately before it, across pass changes too.  The code does not keep
\* this: the paragraph that follows an oversized paragraph starts an empty
\* buffer, and the first sub-chunk of an oversized paragraph handed to the
\* sentence pass starts without the overlap of the sub-chunk before it.
ContinuationOverlap ==
    SplitDone =>
        \A k \in 1..(Len(large_chunks_processed) - 1) :
            Continues(large_chunks_processed, k)
                => CarriesOverlap(large_chunks_processed[k],
                                  large_chunks_processed[k + 1], overlap_size)

\* offset pos lies strictly inside one of the spans
StrictlyInside(spans, pos) ==
    \E b \in 1..Len(spans) : spans[b][1] < pos /\ pos < spans[b][2]

\* the paragraphs of text when a blank-line match is skipped if and only
\* if its start lies strictly inside a span
RECURSIVE ParagraphsSplitOutside(_, _, _, _, _)
ParagraphsSplitOutside(text, spans, matches, k, last_pos) ==
    IF k > Len(matches)
    THEN ParagraphOf(PyFrom(text, last_pos), last_pos)
    ELSE IF StrictlyInside(spans, matches[k][1])
    THEN ParagraphsSplitOutside(text, spans, matches, k + 1, last_pos)
    ELSE ParagraphOf(PySlice(text, last_pos, matches[k][1]), last_pos)
         \o ParagraphsSplitOutside(text, spans, matches, k + 1, matches[k][2])

\* the paragraph pass makes of text the paragraphs of that rule
SplitOutsideFormulas(text, spans, matches) ==
    Paragraphs(text, spans, matches, 1, 0)
        = ParagraphsSplitOutside(text, spans, matches, 1, 0)

SectionSplitOutsideFormulas(section) ==
    SplitOutsideFormulas(section.content, extract_formula_boundaries(section.content),
                         ParaMatchesFrom(section.content, 0))

\* C21: in the paragraph pass a blank-line boundary is skipped if and only if
\* its position lies strictly inside some formula span; a blank line that
\* starts exactly where a formula ends is used as a split point, so the
\* paragraph that ends with the formula and the paragraph after it are
\* separate paragraphs.  The code does not keep this: its test includes both
\* ends of a span, and the blank line that follows a formula is skipped.
ParagraphBoundaryRule ==
    SplitDone =>
        \A k \in 1..Len(initial_chunks) :
            initial_chunks[k].token_count > max_chunk_size
                => SectionSplitOutsideFormulas(initial_chunks[k])

\* where the paragraph loop of a section stands before paragraph k
BeforeParagraph(chunk, spans, paragraphs, k, max, overlap) ==
    ParagraphLoop(chunk, spans, LoopStart(chunk, chunk.start_pos),
                  SubSeq(paragraphs, 1, k - 1), 1, max, overlap)

\* para_chunk of paragraph k as the paragraph loop hands it to the sentence
\* pass
ParaChunkHanded(chunk, spans, paragraphs, k, max, overlap) ==
    ParaChunk(chunk, paragraphs[k].text, chunk.from + paragraphs[k].at,
              PyFind(chunk.content, paragraphs[k].text,
                     BeforeParagraph(chunk, spans, paragraphs, k, max, overlap).start))

\* the boundaries the sentence pass accepts in the text handed to it are
\* those that are not in a formula span of that text
AcceptsOutsideFormulas(handed, spans) ==
    SentenceBoundaries(handed.content, handed.start_pos, spans)
        = SentenceBoundaries(handed.content, 0,
                             extract_formula_boundaries(handed.content))

\* every call of the sentence pass that splitting a section makes
SentenceCallsCorrect(chunk, spans, paragraphs, max, overlap) ==
    IF Len(paragraphs) <= 1
    THEN AcceptsOutsideFormulas(chunk, spans)
    ELSE \A k \in 1..Len(paragraphs) :
             estimate_tokens(paragraphs[k].text) > max
                 => AcceptsOutsideFormulas(
                        ParaChunkHanded(chunk, spans, paragraphs, k, max, overlap), spans)

SectionCallsCorrect(chunk, spans, max, overlap) ==
    SentenceCallsCorrect(chunk, spans,
                         Paragraphs(chunk.content, spans,
                                    ParaMatchesFrom(chunk.content, 0), 1, 0),
                         max, overlap)

\* C22: in _split_by_sentences a sentence-terminator boundary is used as a cut
\* point if and only if it does not lie inside a formula span of the text
\* being split, whatever the offset of the section in the document, when the
\* pass is called on a whole section and when it is called on one oversized
\* paragraph.  The code does not keep this: it adds the chunk's start_pos to
\* the boundary and compares the sum with spans that are offsets in the
\* section's content.
SentenceBoundaryPositions ==
    SplitDone =>
        \A k \in 1..Len(initial_chunks) :
            initial_chunks[k].token_count > max_chunk_size
                => SectionCallsCorrect(initial_chunks[k],
                                       extract_formula_boundaries(initial_chunks[k].content),
                                       max_chunk_size, overlap_size)

\* a sub-chunk closed by the paragraph pass or the sentence pass: a buffer of
\* units none of which is oversized
BufferOfUnits(sub) == sub.pass \in {"para", "sent"}

\* the buffer did not overshoot max, and no unit was added to the units it
\* held when that brought it to max or over
ClosedInTime(sub, max) ==
    /\ estimate_tokens(sub.content) <= max
    /\ sub.units >= 2 => estimate_tokens(sub.content) < max

\* C23: in the paragraph pass and the sentence pass, when the buffer is not
\* empty and adding the next unit, not oversized itself, would bring it
\* exactly to or over max_chunk_size, the buffer is closed before the unit is
\* added; the buffer (overlap seed, separators and units together) never
\* overshoots max_chunk_size.  The code does not keep this: it closes the
\* buffer only when the sum of the two token counts is above max_chunk_size,
\* and it adds the unit to the overlap seed without a test.
TieBreakFavoursClosing ==
    SplitDone =>
        \A k \in 1..Len(large_chunks_processed) :
            BufferOfUnits(large_chunks_processed[k])
                => ClosedInTime(large_chunks_processed[k], max_chunk_size)

\* every chunk of the sequence counts the tokens of its own content
CountsOwnContent(cs) ==
    \A k \in 1..Len(cs) : cs[k].token_count = estimate_tokens(cs[k].content)

\* C24: at every stage and in the output, every chunk's token_count equals
\* estimate_tokens(content) = max(1, len(content) div 4) of its own content:
\* for section chunks, for the sub-chunks of every splitting pass, and for
\* the chunks formed by the merge pass, whose content gained a "\n\n".  The
\* code does not keep this: a merged chunk's token_count is the sum of the
\* token counts of the two chunks.
TokenCountConsistent ==
    /\ CountsOwnContent(initial_chunks)
    /\ CountsOwnContent(large_chunks_processed)
    /\ CountsOwnContent(final_chunks)
    /\ CountsOwnContent(chunks)

\* no two sections of the document have the same level and the same path
SectionKeysDiffer(sections) ==
    \A i, j \in 1..Len(sections) :
        i # j => <<sections[i].level, sections[i].path>>
                     # <<sections[j].level, sections[j].path>>

\* at most one section of level 0, the "Document Start" section
OneDocumentStart(sections) ==
    \A i, j \in 1..Len(sections) :
        (sections[i].level = 0 /\ sections[j].level = 0) => i = j

\* the chunks merged into a chunk come from its section and have its heading
FromOneSection(merged, handed) ==
    \A p \in 1..Len(merged.members) :
        /\ handed[merged.members[p]].sec = merged.sec
        /\ handed[merged.members[p]].heading = merged.heading

\* a chunk that is the whole of its section
WholeSection(chunk) == chunk.pass = "section"

\* C25: the pair (level, path) is different for any two distinct sections of
\* a document, so the merge pass only ever merges chunks that come from the
\* same section: the chunks merged into one share one heading, and an
\* undersized chunk that is the whole of its section is not merged with a
\* chunk of a neighbouring section; there is at most one section of level 0.
MergeWithinSection ==
    /\ Sliced => SectionKeysDiffer(initial_chunks) /\ OneDocumentStart(initial_chunks)
    /\ Merging =>
           \A k \in 1..Len(final_chunks) :
               /\ FromOneSection(final_chunks[k], large_chunks_processed)
               /\ WholeSection(final_chunks[k]) => Len(final_chunks[k].members) = 1

\* the first section of RepeatedTitleDoc, undersized and whole, is followed
\* by a chunk of the second section, of its level and its title and small
\* enough to be merged with it, and stays alone; two sub-chunks of the second
\* section are merged
MergeWithinSectionWitness ==
    /\ Merging
    /\ content = RepeatedTitleDoc
    /\ Len(final_chunks) = 4
    /\ WholeSection(final_chunks[1])
    /\ final_chunks[1].members = <<1>>
    /\ final_chunks[1].token_count < min_chunk_size
    /\ final_chunks[2].sec # final_chunks[1].sec
    /\ final_chunks[2].level = final_chunks[1].level
    /\ final_chunks[2].heading = final_chunks[1].heading
    /\ final_chunks[1].token_count + final_chunks[2].token_count <= max_chunk_size
    /\ Len(final_chunks[4].members) = 2

====
